---- MODULE Spec2Model ----
(***************************************************************************)
(* Model of src/server.py: the cache store (get_cache_path, load_cache,    *)
(* save_cache, clear_cache), the paginated list walk (list_entries), the   *)
(* sync engine (sync_all_entries_to_cache, fetch_entry_from_api), the      *)
(* query tools (get_entry, search_entries, get_categories,                 *)
(* get_entries_by_category), the configuration they test, and save_cache   *)
(* and load_cache step by step as two processes interleave them.           *)
(*                                                                         *)
(* Python strings are sequences of one-character strings.  Python None and *)
(* Optional values are <<>> (None) and <<v>> (a value v).  The clock is    *)
(* counted in hours, the unit of CACHE_EXPIRY_HOURS.                       *)
(***************************************************************************)
EXTENDS Integers, Sequences, FiniteSets, TLC

VARIABLES
    now,        \* datetime.now(), in hours
    dir,        \* CACHE_DIR: "exists", "missing" (parent present), "noparent"
    files,      \* the *.json files of CACHE_DIR: file stem -> stored document
    creds,      \* HATENA_ID, HATENA_BLOG_ID, HATENA_API_KEY as read at import
    remote,     \* the remote collection, in feed order
    pageSize,   \* entries per list page served by the remote
    writer,     \* a process inside save_cache: its position and arguments
    reader,     \* a process inside load_cache: its position, argument and result
    last,       \* the last cache-store call: arguments, what it saw, result
    result      \* the last tool call: arguments, network use, returned mapping

vars == <<now, dir, files, creds, remote, pageSize, writer, reader, last, result>>

----------------------------------------------------------------------------
(* Bounds of the model *)

MaxEntries == 3
MaxPageSize == 2
MaxSmallTicks == 1

----------------------------------------------------------------------------
(* Values *)

None == <<>>
Some(v) == <<v>>

\* body(v) with v computed once: a local variable of the code
Local(v, body(_)) == CHOOSE y \in {body(x) : x \in {v}} : TRUE

NoError == "none"

\* a str attribute that holds None (lxml gives .text = None for an empty element)
NoneStr == <<"None">>

CACHE_EXPIRY_HOURS == 24 * 365

\* max_results=50 passed by the full-collection loops to list_entries
WalkPageLimit == 50

\* max_results=10, the default of list_entries
DefaultMaxResults == 10

----------------------------------------------------------------------------
(* Configuration *)

CredNames == {"HATENA_ID", "HATENA_BLOG_ID", "HATENA_API_KEY"}

\* every value set, and the settings in which one of them is the empty string
AllSet == [c \in CredNames |-> <<"x">>]

CredSettings == {AllSet} \cup {[AllSet EXCEPT ![c] = <<>>] : c \in CredNames}

\* all([HATENA_ID, HATENA_BLOG_ID, HATENA_API_KEY]): a str is true when not empty
ConfiguredAnyOne == \E c \in CredNames : creds[c] # <<>>
Configured == \A c \in CredNames : creds[c] # <<>>

----------------------------------------------------------------------------
(* Strings *)

\* str.lower() on the characters the model uses
LowerChar(c) ==
    CASE c = "A" -> "a"
      [] c = "B" -> "b"
      [] c = "X" -> "x"
      [] OTHER -> c

Lower(s) == [i \in 1..Len(s) |-> LowerChar(s[i])]

\* Python's `sub in s`
Contains(sub, s) ==
    \E i \in 0..(Len(s) - Len(sub)) : SubSeq(s, i + 1, i + Len(sub)) = sub

\* s.split("-")[-1]: what follows the last "-", the whole of s when it has none
SplitLast(s) ==
    LET dashes == {i \in 1..Len(s) : s[i] = "-"}
        cut == IF dashes = {} THEN 0 ELSE CHOOSE i \in dashes : \A j \in dashes : j <= i
    IN  SubSeq(s, cut + 1, Len(s))

\* f"entry_{entry_id}"
EntryKey(entry_id) == <<"e", "n", "t", "r", "y", "_">> \o entry_id

----------------------------------------------------------------------------
(* Cache store *)

\* hashlib.md5(key.encode()).hexdigest(): a digest of hexadecimal digits, so no
\* digest is itself a key of the form entry_...; distinct keys of the model have
\* distinct digests.  The digest of k is k behind the marker "#".
MD5(key) == <<"#">> \o key

\* the stem of get_cache_path(key), the file being CACHE_DIR / f"{stem}.json"
GetCachePath(key) == MD5(key)

\* datetime.isoformat() and datetime.fromisoformat(): the text form of an hour
\* count t is <<"iso", t>>; any other text raises ValueError, a JSON value that
\* is no string raises TypeError.
IsoFormat(t) == <<"iso", t>>

FromIsoFormat(text) ==
    CASE text[1] = "iso" -> [exc |-> NoError, val |-> text[2]]
      [] text[1] = "num" -> [exc |-> "TypeError", val |-> 0]
      [] OTHER -> [exc |-> "ValueError", val |-> 0]

\* json.dump of {"cached_at": ..., "data": ...}: an object document with both
\* members present
JsonDump(cache_data) ==
    [json |-> "object", cached_at |-> Some(cache_data.cached_at),
     data |-> Some(cache_data.data)]

\* datetime.now() - cached_at > timedelta(hours=CACHE_EXPIRY_HOURS)
ExpiredOffByOne(clock, cached_at) == clock - cached_at >= CACHE_EXPIRY_HOURS
Expired(clock, cached_at) == clock - cached_at > CACHE_EXPIRY_HOURS

\* except (json.JSONDecodeError, KeyError, ValueError)
CaughtOnlyDecode(exc) == exc \in {"JSONDecodeError"}
Caught(exc) == exc \in {"JSONDecodeError", "KeyError", "ValueError"}

Unlink(fs, path) == [p \in (DOMAIN fs) \ {path} |-> fs[p]]

WriteFile(fs, path, doc) ==
    [p \in (DOMAIN fs) \cup {path} |-> IF p = path THEN doc ELSE fs[p]]

\* the body of load_cache's try block on a stored document:
\* [exc, expired, val]
ReadDoc(doc, clock) ==
    IF doc.json = "invalid"
    THEN [exc |-> "JSONDecodeError", expired |-> FALSE, val |-> None]
    ELSE IF doc.json # "object"
    THEN [exc |-> "TypeError", expired |-> FALSE, val |-> None]
    ELSE IF doc.cached_at = None
    THEN [exc |-> "KeyError", expired |-> FALSE, val |-> None]
    ELSE LET ts == FromIsoFormat(doc.cached_at[1]) IN
         IF ts.exc # NoError
         THEN [exc |-> ts.exc, expired |-> FALSE, val |-> None]
         ELSE IF Expired(clock, ts.val)
         THEN [exc |-> NoError, expired |-> TRUE, val |-> None]
         ELSE IF doc.data = None
         THEN [exc |-> "KeyError", expired |-> FALSE, val |-> None]
         ELSE [exc |-> NoError, expired |-> FALSE, val |-> doc.data]

\* load_cache(key): [files, ret, raised]
LoadCache(fs, clock, key) ==
    LET path == GetCachePath(key) IN
    IF path \notin DOMAIN fs
    THEN [files |-> fs, ret |-> None, raised |-> NoError]
    ELSE LET r == ReadDoc(fs[path], clock) IN
         IF r.exc = NoError /\ r.expired
         THEN [files |-> Unlink(fs, path), ret |-> None, raised |-> NoError]
         ELSE IF r.exc = NoError
         THEN [files |-> fs, ret |-> r.val, raised |-> NoError]
         ELSE IF Caught(r.exc)
         THEN [files |-> Unlink(fs, path), ret |-> None, raised |-> NoError]
         ELSE [files |-> fs, ret |-> None, raised |-> r.exc]

\* save_cache(key, data): [files, dir, raised].  CACHE_DIR.mkdir(exist_ok=True)
\* creates one directory level only and raises when the parent is missing.
SaveCacheRawKey(fs, d, clock, key, data) ==
    IF d = "noparent"
    THEN [files |-> fs, dir |-> d, raised |-> "FileNotFoundError"]
    ELSE [files |-> WriteFile(fs, key,
                        JsonDump([cached_at |-> IsoFormat(clock), data |-> data])),
          dir |-> "exists", raised |-> NoError]

SaveCache(fs, d, clock, key, data) ==
    IF d = "noparent"
    THEN [files |-> fs, dir |-> d, raised |-> "FileNotFoundError"]
    ELSE [files |-> WriteFile(fs, GetCachePath(key),
                        JsonDump([cached_at |-> IsoFormat(clock), data |-> data])),
          dir |-> "exists", raised |-> NoError]

\* clear_cache(): [files, ret]
ClearCacheIfAny(fs, d) ==
    IF d = "exists"
    THEN [files |-> <<>>, ret |-> DOMAIN fs # {}]
    ELSE [files |-> fs, ret |-> FALSE]

ClearCache(fs, d) ==
    IF d = "exists"
    THEN [files |-> <<>>, ret |-> TRUE]
    ELSE [files |-> fs, ret |-> FALSE]

----------------------------------------------------------------------------
(* The remote collection *)

\* element.text of lxml: None for an empty element
Text(s) == IF s = <<>> THEN NoneStr ELSE s

CatA == <<"A">>
CatB == <<"B">>
CatX == <<"X">>

\* the posts the remote blog may hold: id, title, content, category terms
Catalogue ==
    { [id |-> <<"b", "-", "1">>, title |-> <<"A", "b">>, content |-> <<"x">>,
       categories |-> <<CatA>>],
      [id |-> <<"b", "-", "2">>, title |-> <<"b">>, content |-> <<"a">>,
       categories |-> <<CatX, CatA>>],
      [id |-> <<"b", "-", "3">>, title |-> <<>>, content |-> <<>>,
       categories |-> <<CatB>>],
      [id |-> <<"4">>, title |-> <<"a">>, content |-> <<"B">>,
       categories |-> <<CatA>>] }

\* the mapping fetch_entry_from_api builds from a single-entry document
Detail(e) ==
    [id |-> Text(e.id), title |-> Text(e.title), content |-> Text(e.content),
     categories |-> e.categories]

----------------------------------------------------------------------------
(* Cache-store calls, as made by any caller *)

Keys == {EntryKey(<<"1">>), EntryKey(<<"2">>)}

Payloads == {Detail(e) : e \in {c \in Catalogue : c.title # <<"b">> /\ c.id # <<"4">>}}

\* what open(cache_path, "w") leaves under the name: an empty file, which
\* json.load rejects with JSONDecodeError
Truncated == [json |-> "invalid", cached_at |-> None, data |-> None]

\* documents a damaged or foreign file may hold
CorruptPayload == CHOOSE p \in Payloads : TRUE

CorruptDocs ==
    { [json |-> "invalid", cached_at |-> None, data |-> None],
      [json |-> "array", cached_at |-> None, data |-> None],
      [json |-> "object", cached_at |-> None, data |-> Some(CorruptPayload)],
      [json |-> "object", cached_at |-> Some(IsoFormat(0)), data |-> None],
      [json |-> "object", cached_at |-> Some(<<"bad", 0>>), data |-> Some(CorruptPayload)],
      [json |-> "object", cached_at |-> Some(<<"num", 0>>), data |-> Some(CorruptPayload)] }

\* what the file of a key holds when a call starts, by the shape of the document
\* and, for a well-formed {cached_at, data} object, its age against the expiry
\* window: "absent", "invalid_json", "not_object", "no_cached_at",
\* "cached_at_not_str", "bad_cached_at", "no_data", "fresh" or "expired"
Shape(fs, clock, key) ==
    IF GetCachePath(key) \notin DOMAIN fs THEN "absent"
    ELSE LET doc == fs[GetCachePath(key)] IN
         CASE doc.json = "invalid" -> "invalid_json"
           [] doc.json = "array" -> "not_object"
           [] doc.cached_at = None -> "no_cached_at"
           [] doc.cached_at[1][1] = "num" -> "cached_at_not_str"
           [] doc.cached_at[1][1] = "bad" -> "bad_cached_at"
           [] doc.data = None -> "no_data"
           [] clock - doc.cached_at[1][2] <= CACHE_EXPIRY_HOURS -> "fresh"
           [] OTHER -> "expired"

\* a process that is in no call
Idle == [pc |-> "idle"]

NoCall ==
    [op |-> "none", key |-> <<>>, data |-> None, ret |-> None, raised |-> NoError,
     at |-> 0, saw |-> "absent", after |-> <<"none", <<>>>>]

NoResult == [op |-> "none"]

InitCache ==
    /\ now = 0
    /\ dir \in {"exists", "missing", "noparent"}
    /\ files = <<>>
    /\ creds = AllSet
    /\ writer = Idle
    /\ reader = Idle
    /\ remote = <<>>
    /\ pageSize = 1
    /\ last = NoCall
    /\ result = NoResult

\* the clock advances by an hour or by the whole expiry window
Tick(d) ==
    /\ d \in {1, CACHE_EXPIRY_HOURS}
    /\ d = 1 => (now % CACHE_EXPIRY_HOURS) < MaxSmallTicks
    /\ now + d <= CACHE_EXPIRY_HOURS + MaxSmallTicks
    /\ now' = now + d
    /\ UNCHANGED <<dir, files, remote, pageSize, last, result, creds, writer, reader>>

SaveCacheCall(k, v) ==
    \E r \in {SaveCache(files, dir, now, k, v)} :
    /\ files' = r.files
    /\ dir' = r.dir
    /\ last' = [op |-> "save_cache", key |-> k, data |-> Some(v), ret |-> None,
                raised |-> r.raised, at |-> now, saw |-> Shape(files, now, k),
                after |-> <<last.op, last.key>>]
    /\ UNCHANGED <<now, remote, pageSize, result, creds, writer, reader>>

LoadCacheCall(k) ==
    \E r \in {LoadCache(files, now, k)} :
    /\ files' = r.files
    /\ last' = [op |-> "load_cache", key |-> k, data |-> None, ret |-> r.ret,
                raised |-> r.raised, at |-> now, saw |-> Shape(files, now, k),
                after |-> <<last.op, last.key>>]
    /\ UNCHANGED <<now, dir, remote, pageSize, result, creds, writer, reader>>

ClearCacheCall ==
    \E r \in {ClearCache(files, dir)} :
    /\ files' = r.files
    /\ last' = [op |-> "clear_cache", key |-> <<>>, data |-> None,
                ret |-> Some(r.ret), raised |-> NoError, at |-> now, saw |-> "absent",
                after |-> <<last.op, last.key>>]
    /\ UNCHANGED <<now, dir, remote, pageSize, result, creds, writer, reader>>

\* a stored file is damaged or replaced from outside the program
CorruptFile(k, doc) ==
    /\ dir = "exists"
    /\ files' = WriteFile(files, GetCachePath(k), doc)
    /\ last' = [op |-> "corrupt", key |-> k, data |-> None, ret |-> None,
                raised |-> NoError, at |-> now, saw |-> Shape(files, now, k),
                after |-> <<last.op, last.key>>]
    /\ UNCHANGED <<now, dir, remote, pageSize, result, creds, writer, reader>>

NextCache ==
    \/ \E d \in {1, CACHE_EXPIRY_HOURS} : Tick(d)
    \/ \E k \in Keys, v \in Payloads : SaveCacheCall(k, v)
    \/ \E k \in Keys : LoadCacheCall(k)
    \/ ClearCacheCall
    \/ \E k \in Keys, doc \in CorruptDocs : CorruptFile(k, doc)

SpecCache == InitCache /\ [][NextCache]_vars

----------------------------------------------------------------------------
(* The list endpoint and list_entries *)

Min(a, b) == IF a < b THEN a ELSE b

\* seq[:n] for n >= 0
Take(seq, n) == SubSeq(seq, 1, Min(n, Len(seq)))

\* The remote serves the collection as pages of P entries in feed order, the
\* first page at the collection URI, each page but the last with a rel="next"
\* link.  A page URL is the page's number.
PageCount(rem, P) == IF Len(rem) = 0 THEN 1 ELSE (Len(rem) + P - 1) \div P

PageEntries(rem, P, p) == SubSeq(rem, (p - 1) * P + 1, Min(p * P, Len(rem)))

HasNext(rem, P, p) == p * P < Len(rem)

\* an entry element has the children list_entries reads with find(...).text;
\* the model's entries carry id and title, and one that lacks its title stands
\* for an entry lacking any of id, title, link, published, updated
WellFormed(e) == {"id", "title"} \subseteq DOMAIN e

\* the mapping list_entries builds from one feed entry
ListItem(e) == [id |-> Text(e.id), title |-> Text(e.title), categories |-> e.categories]

\* the status of a GET that got no response: requests.get raises
TransportError == 0

\* list_entries(page_url, max_results) when the GET answers with `status`:
\* [error, raised, gets, entries, next_page_url, count]; raised when the call
\* ends by an exception (of requests.get, or the AttributeError of
\* entry.find(...).text on a missing child), gets the GETs made
ListEntriesNoNext(rem, P, page_url, max_results, status) ==
    LET p == IF page_url = None THEN 1 ELSE page_url[1]
        failed == [error |-> TRUE, raised |-> FALSE, gets |-> 1, entries |-> <<>>,
                   next_page_url |-> None, count |-> 0]
    IN  IF ~Configured THEN [failed EXCEPT !.gets = 0]
        ELSE IF status = TransportError
        THEN [failed EXCEPT !.error = FALSE, !.raised = TRUE]
        ELSE IF status # 200 THEN failed
        ELSE LET found == Take(PageEntries(rem, P, p), max_results) IN
             IF \E i \in 1..Len(found) : ~WellFormed(found[i])
             THEN [failed EXCEPT !.error = FALSE, !.raised = TRUE]
             ELSE [error |-> FALSE, raised |-> FALSE, gets |-> 1,
                   entries |-> [i \in 1..Len(found) |-> ListItem(found[i])],
                   next_page_url |-> None,
                   count |-> Len(found)]

ListEntries(rem, P, page_url, max_results, status) ==
    LET p == IF page_url = None THEN 1 ELSE page_url[1]
        failed == [error |-> TRUE, raised |-> FALSE, gets |-> 1, entries |-> <<>>,
                   next_page_url |-> None, count |-> 0]
    IN  IF ~Configured THEN [failed EXCEPT !.gets = 0]
        ELSE IF status = TransportError
        THEN [failed EXCEPT !.error = FALSE, !.raised = TRUE]
        ELSE IF status # 200 THEN failed
        ELSE LET found == Take(PageEntries(rem, P, p), max_results) IN
             IF \E i \in 1..Len(found) : ~WellFormed(found[i])
             THEN [failed EXCEPT !.error = FALSE, !.raised = TRUE]
             ELSE [error |-> FALSE, raised |-> FALSE, gets |-> 1,
                   entries |-> [i \in 1..Len(found) |-> ListItem(found[i])],
                   next_page_url |-> IF HasNext(rem, P, p) THEN Some(p + 1) ELSE None,
                   count |-> Len(found)]

\* the status of the GET of list page p: listFail = p when page p answers 500,
\* listFail = -p when the GET of page p raises, listFail = 0 when none fails
ListStatus(p, listFail) ==
    IF p = listFail THEN 500 ELSE IF p = -listFail THEN TransportError ELSE 200

----------------------------------------------------------------------------
(* fetch_entry_from_api and sync_all_entries_to_cache *)

\* fetch_entry_from_api(entry_id) under outcome "ok" (status 200), "status"
\* (non-200) or "raise" (requests or the parser raises): [error, raised, detail].
\* The entry URI names the post by the last component of its id.
FetchEntryFromApi(rem, entry_id, outcome) ==
    LET hits == {i \in 1..Len(rem) : SplitLast(rem[i].id) = entry_id} IN
    IF ~Configured
    THEN [error |-> TRUE, raised |-> FALSE, detail |-> None]
    ELSE IF outcome = "raise"
    THEN [error |-> FALSE, raised |-> TRUE, detail |-> None]
    ELSE IF outcome = "status" \/ hits = {}
    THEN [error |-> TRUE, raised |-> FALSE, detail |-> None]
    ELSE [error |-> FALSE, raised |-> FALSE,
          detail |-> Some(Detail(rem[CHOOSE i \in hits : \A j \in hits : i <= j]))]

\* the body of `for entry in result["entries"]` (lines 389-403) for one entry,
\* whose detail GET has the given outcome
SyncEntryDropsErrors(entry, rem, clock, outcome, acc) ==
    LET entry_id == SplitLast(entry.id)
        walked == Append(acc.walked, entry.id)
    IN  Local(FetchEntryFromApi(rem, entry_id, outcome), LAMBDA entry_detail :
            IF entry_detail.raised THEN [acc EXCEPT !.walked = walked]
            ELSE IF entry_detail.error
            THEN [acc EXCEPT !.errors = @ + 1, !.walked = walked]
            ELSE Local(SaveCache(acc.files, acc.dir, clock, EntryKey(entry_id),
                                 entry_detail.detail[1]),
                       LAMBDA saved :
                         IF saved.raised # NoError
                         THEN [acc EXCEPT !.errors = @ + 1, !.walked = walked]
                         ELSE [acc EXCEPT !.files = saved.files, !.dir = saved.dir,
                                          !.synced = @ + 1, !.walked = walked]))

SyncEntry(entry, rem, clock, outcome, acc) ==
    LET entry_id == SplitLast(entry.id)
        walked == Append(acc.walked, entry.id)
    IN  Local(FetchEntryFromApi(rem, entry_id, outcome), LAMBDA entry_detail :
            IF entry_detail.raised \/ entry_detail.error
            THEN [acc EXCEPT !.errors = @ + 1, !.walked = walked]
            ELSE Local(SaveCache(acc.files, acc.dir, clock, EntryKey(entry_id),
                                 entry_detail.detail[1]),
                       LAMBDA saved :
                         IF saved.raised # NoError
                         THEN [acc EXCEPT !.errors = @ + 1, !.walked = walked]
                         ELSE [acc EXCEPT !.files = saved.files, !.dir = saved.dir,
                                          !.synced = @ + 1, !.walked = walked]))

\* the for loop on entries[i..], the feed position of entries[1] being base + 1
RECURSIVE SyncEntries(_, _, _, _, _, _, _)
SyncEntries(entries, i, base, rem, clock, detail, acc) ==
    IF i > Len(entries) THEN acc
    ELSE Local(SyncEntry(entries[i], rem, clock, detail[base + i], acc),
               LAMBDA next : SyncEntries(entries, i + 1, base, rem, clock, detail, next))

\* the `while True` loop of sync_all_entries_to_cache from cursor next_url
RECURSIVE SyncWalk(_, _, _, _, _, _, _)
SyncWalk(next_url, rem, P, clock, listFail, detail, acc) ==
    LET p == IF next_url = None THEN 1 ELSE next_url[1] IN
    Local(ListEntries(rem, P, next_url, WalkPageLimit, ListStatus(p, listFail)),
          LAMBDA page :
            IF page.raised THEN [acc EXCEPT !.pages = @ + page.gets, !.raised = TRUE]
            ELSE IF page.error THEN [acc EXCEPT !.pages = @ + page.gets, !.error = TRUE]
            ELSE Local(SyncEntries(page.entries, 1, (p - 1) * P, rem, clock, detail,
                                   [acc EXCEPT !.pages = @ + page.gets]),
                       LAMBDA done :
                         IF page.next_page_url = None THEN done
                         ELSE SyncWalk(page.next_page_url, rem, P, clock, listFail,
                                       detail, done)))

\* sync_all_entries_to_cache(): files and dir afterwards, the returned mapping
\* (error, or synced and errors) or raised when the call ends by an exception,
\* the list pages fetched and the ids walked
SyncAfterPruning(fs, d, rem, P, clock, listFail, detail) ==
    LET start == [files |-> <<>>, dir |-> d, error |-> FALSE, raised |-> FALSE,
                  synced |-> 0, errors |-> 0, pages |-> 0, walked |-> <<>>]
    IN  IF ~Configured THEN [start EXCEPT !.error = TRUE, !.files = fs]
        ELSE SyncWalk(None, rem, P, clock, listFail, detail, start)

SyncAllEntriesToCache(fs, d, rem, P, clock, listFail, detail) ==
    LET start == [files |-> fs, dir |-> d, error |-> FALSE, raised |-> FALSE,
                  synced |-> 0, errors |-> 0, pages |-> 0, walked |-> <<>>]
    IN  IF ~Configured THEN [start EXCEPT !.error = TRUE]
        ELSE SyncWalk(None, rem, P, clock, listFail, detail, start)

----------------------------------------------------------------------------
(* get_categories *)

\* category_count[category] = category_count.get(category, 0) + 1 on a dict,
\* which keeps its keys in insertion order: a sequence of [name, count]
CountOne(counts, category) ==
    IF \E i \in 1..Len(counts) : counts[i].name = category
    THEN [i \in 1..Len(counts) |->
            IF counts[i].name = category
            THEN [counts[i] EXCEPT !.count = @ + 1] ELSE counts[i]]
    ELSE Append(counts, [name |-> category, count |-> 1])

RECURSIVE CountCategories(_, _, _)
CountCategories(categories, j, counts) ==
    IF j > Len(categories) THEN counts
    ELSE CountCategories(categories, j + 1, CountOne(counts, categories[j]))

RECURSIVE CountEntries(_, _, _)
CountEntries(entries, i, counts) ==
    IF i > Len(entries) THEN counts
    ELSE CountEntries(entries, i + 1, CountCategories(entries[i].categories, 1, counts))

RemoveAt(seq, i) == SubSeq(seq, 1, i - 1) \o SubSeq(seq, i + 1, Len(seq))

\* sorted(items, key=lambda x: x[1], reverse=True): stable, so items of equal
\* count keep their order
RECURSIVE SortedAscending(_)
SortedAscending(items) ==
    IF items = <<>> THEN <<>>
    ELSE LET least == CHOOSE i \in 1..Len(items) :
                 /\ \A j \in 1..Len(items) : items[i].count <= items[j].count
                 /\ \A j \in 1..(i - 1) : items[j].count # items[i].count
         IN  <<items[least]>> \o SortedAscending(RemoveAt(items, least))

RECURSIVE SortedByCount(_)
SortedByCount(items) ==
    IF items = <<>> THEN <<>>
    ELSE LET most == CHOOSE i \in 1..Len(items) :
                 /\ \A j \in 1..Len(items) : items[i].count >= items[j].count
                 /\ \A j \in 1..(i - 1) : items[j].count # items[i].count
         IN  <<items[most]>> \o SortedByCount(RemoveAt(items, most))

\* the `while True` loop of get_categories from cursor next_url
RECURSIVE CategoryWalk(_, _, _, _, _)
CategoryWalk(next_url, rem, P, listFail, acc) ==
    LET p == IF next_url = None THEN 1 ELSE next_url[1] IN
    Local(ListEntries(rem, P, next_url, WalkPageLimit, ListStatus(p, listFail)),
          LAMBDA page :
            IF page.raised THEN [acc EXCEPT !.pages = @ + page.gets, !.raised = TRUE]
            ELSE IF page.error THEN [acc EXCEPT !.pages = @ + page.gets, !.error = TRUE]
            ELSE Local([acc EXCEPT
                          !.pages = @ + page.gets,
                          !.counts = CountEntries(page.entries, 1, @),
                          !.walked = @ \o [i \in 1..Len(page.entries) |->
                                             page.entries[i].id]],
                       LAMBDA done :
                         IF page.next_page_url = None THEN done
                         ELSE CategoryWalk(page.next_page_url, rem, P, listFail, done)))

\* get_categories(): the returned mapping (error, or categories and total) or
\* raised when the call ends by an exception, the list pages fetched and the
\* ids walked
GetCategories(rem, P, listFail) ==
    LET start == [error |-> FALSE, raised |-> FALSE, counts |-> <<>>, pages |-> 0,
                  walked |-> <<>>]
    IN  Local(IF ~Configured THEN [start EXCEPT !.error = TRUE]
              ELSE CategoryWalk(None, rem, P, listFail, start),
          LAMBDA w :
            Local(SortedByCount(w.counts), LAMBDA sorted_categories :
                [error |-> w.error, raised |-> w.raised,
                 categories |-> IF w.error \/ w.raised THEN <<>> ELSE sorted_categories,
                 total |-> IF w.error \/ w.raised THEN 0 ELSE Len(sorted_categories),
                 pages |-> w.pages, walked |-> w.walked]))

----------------------------------------------------------------------------
(* get_entries_by_category *)

\* Python's `x in list`
InList(x, list) == \E j \in 1..Len(list) : list[j] = x

InListNoCase(x, list) == \E j \in 1..Len(list) : Lower(list[j]) = Lower(x)

\* `category in entry["categories"]` (line 315)
CategoryTestNoCase(category, categories) == InListNoCase(category, categories)
CategoryTest(category, categories) == InList(category, categories)

\* the for loop of lines 314-318 on entries[i..], with its break
RECURSIVE FilterEntries(_, _, _, _, _)
FilterEntries(entries, i, category, max_results, category_entries) ==
    IF i > Len(entries) THEN category_entries
    ELSE IF CategoryTest(category, entries[i].categories)
    THEN Local(Append(category_entries, entries[i]), LAMBDA grown :
            IF Len(grown) >= max_results THEN grown
            ELSE FilterEntries(entries, i + 1, category, max_results, grown))
    ELSE FilterEntries(entries, i + 1, category, max_results, category_entries)

\* the `while len(category_entries) < max_results` loop from cursor next_url
RECURSIVE FilterWalk(_, _, _, _, _, _, _)
FilterWalk(next_url, rem, P, category, max_results, listFail, acc) ==
    LET p == IF next_url = None THEN 1 ELSE next_url[1] IN
    IF ~(Len(acc.matched) < max_results) THEN acc
    ELSE Local(ListEntries(rem, P, next_url, WalkPageLimit, ListStatus(p, listFail)),
          LAMBDA page :
            IF page.raised THEN [acc EXCEPT !.pages = @ + page.gets, !.raised = TRUE]
            ELSE IF page.error THEN [acc EXCEPT !.pages = @ + page.gets, !.error = TRUE]
            ELSE Local([acc EXCEPT
                          !.pages = @ + page.gets,
                          !.matched = FilterEntries(page.entries, 1, category,
                                                    max_results, @)],
                       LAMBDA done :
                         IF page.next_page_url = None THEN done
                         ELSE FilterWalk(page.next_page_url, rem, P, category,
                                         max_results, listFail, done)))

\* get_entries_by_category(category, max_results), max_results >= 0: the
\* returned mapping (error, or entries and count) or raised, and the list pages
\* fetched
GetEntriesByCategory(rem, P, category, max_results, listFail) ==
    LET start == [error |-> FALSE, raised |-> FALSE, matched |-> <<>>, pages |-> 0]
    IN  Local(IF ~Configured THEN [start EXCEPT !.error = TRUE]
              ELSE FilterWalk(None, rem, P, category, max_results, listFail, start),
          LAMBDA w :
            LET failed == w.error \/ w.raised IN
            [error |-> w.error, raised |-> w.raised,
             entries |-> IF failed THEN <<>> ELSE Take(w.matched, max_results),
             count |-> IF failed THEN 0 ELSE Len(Take(w.matched, max_results)),
             pages |-> w.pages])

----------------------------------------------------------------------------
(* get_entry and search_entries *)

\* get_entry(entry_id): [files, found, entry, raised]; found is FALSE for the
\* "not in the cache, refresh it" error mapping
GetEntry(fs, clock, entry_id) ==
    Local(LoadCache(fs, clock, EntryKey(entry_id)), LAMBDA cached :
        IF cached.raised # NoError
        THEN [files |-> cached.files, found |-> FALSE, entry |-> None,
              raised |-> cached.raised]
        ELSE [files |-> cached.files, found |-> cached.ret # None,
              entry |-> cached.ret, raised |-> NoError])

\* the three tests of lines 219-232 on one loaded record; x.lower() raises
\* AttributeError when the title or the content is None:
\* "title", "category", "content", "none" or "raise"
MatchField(keyword_lower, cached) ==
    IF cached.title = NoneStr THEN "raise"
    ELSE IF Contains(keyword_lower, Lower(cached.title)) THEN "title"
    ELSE IF \E c \in 1..Len(cached.categories) :
                Contains(keyword_lower, Lower(cached.categories[c]))
    THEN "category"
    ELSE IF cached.content = NoneStr THEN "raise"
    ELSE IF Contains(keyword_lower, Lower(cached.content)) THEN "content"
    ELSE "none"

\* the body of the loop of lines 212-239 for one stem, which is handed to
\* load_cache as the key: the state afterwards and whether the loop breaks
SearchOne(stem, clock, keyword_lower, max_results, acc) ==
    Local(LoadCache(acc.files, clock, stem), LAMBDA cached :
        LET loaded == [files |-> cached.files, matched |-> acc.matched, stop |-> FALSE]
            hit == [files |-> cached.files,
                    matched |-> Append(acc.matched, cached.ret[1]), stop |-> FALSE]
        IN  IF cached.raised # NoError THEN [loaded EXCEPT !.files = acc.files]
            ELSE IF cached.ret = None THEN loaded
            ELSE Local(MatchField(keyword_lower, cached.ret[1]), LAMBDA field :
                   IF field \in {"title", "category"} THEN hit
                   ELSE IF field = "raise" THEN loaded
                   ELSE LET after == IF field = "content" THEN hit ELSE loaded IN
                        [after EXCEPT !.stop = Len(after.matched) >= max_results]))

\* the loop over the stems CACHE_DIR.glob yields, in the order it yields them
RECURSIVE SearchLoop(_, _, _, _, _, _)
SearchLoop(stems, i, clock, keyword_lower, max_results, acc) ==
    IF i > Len(stems) THEN acc
    ELSE Local(SearchOne(stems[i], clock, keyword_lower, max_results, acc),
               LAMBDA next :
                 IF next.stop THEN next
                 ELSE SearchLoop(stems, i + 1, clock, keyword_lower, max_results, next))

\* search_entries(keyword, max_results) with glob yielding `stems`:
\* [files, error, entries, count]
SearchEntries(fs, d, clock, keyword, max_results, stems) ==
    IF d # "exists"
    THEN [files |-> fs, error |-> TRUE, entries |-> <<>>, count |-> 0]
    ELSE Local(SearchLoop(stems, 1, clock, Lower(keyword), max_results,
                          [files |-> fs, matched |-> <<>>, stop |-> FALSE]),
               LAMBDA done :
                 [files |-> done.files, error |-> FALSE,
                  entries |-> Take(done.matched, max_results),
                  count |-> Len(Take(done.matched, max_results))])

----------------------------------------------------------------------------
(* The tools, as called by the agent or by --update-cache *)

\* the orders in which glob may yield the files of a set
RECURSIVE Orders(_)
Orders(S) ==
    IF S = {} THEN {<<>>}
    ELSE UNION {{<<x>> \o rest : rest \in Orders(S \ {x})} : x \in S}

\* the feed order of the whole blog, newest post first
AllPosts ==
    LET byId(x) == CHOOSE e \in Catalogue : e.id = x IN
    <<byId(<<"b", "-", "2">>), byId(<<"b", "-", "1">>), byId(<<"b", "-", "3">>),
      byId(<<"4">>)>>

\* the collections the remote may hold: up to MaxEntries consecutive posts of
\* AllPosts, starting anywhere and wrapping around
Feeds ==
    {[i \in 1..n |-> AllPosts[((start + i - 2) % Len(AllPosts)) + 1]] :
        n \in 0..Min(MaxEntries, Len(AllPosts)), start \in 1..Len(AllPosts)}

\* per feed position, the outcome of the detail GET: all succeed, or the one at
\* position f fails in the given way
DetailOutcomes(n) ==
    {[i \in 1..n |-> "ok"]}
    \cup {[i \in 1..n |-> IF i = f THEN how ELSE "ok"] :
             f \in 1..n, how \in {"status", "raise"}}

\* the ids a caller may pass to get_entry: as list_entries returns them, or
\* their last component
EntryIds == {e.id : e \in Catalogue} \cup {SplitLast(e.id) : e \in Catalogue}

Keywords == {<<"a">>, <<"X">>}

Init ==
    /\ now = 0
    /\ dir \in {"missing", "noparent"}
    /\ files = <<>>
    /\ creds = AllSet
    /\ writer = Idle
    /\ reader = Idle
    /\ remote \in Feeds
    /\ pageSize \in 1..MaxPageSize
    /\ last = NoCall
    /\ result = NoResult

\* the feed position whose detail GET fails under `detail`, 0 when none does
FailedAt(detail) ==
    IF \A i \in DOMAIN detail : detail[i] = "ok" THEN 0
    ELSE CHOOSE i \in DOMAIN detail : detail[i] # "ok"

\* what the call follows: "clean_sync" for a sync whose list and detail GETs all
\* succeeded, else the name of the last tool call
Follows ==
    IF result.op = "sync" /\ result.listFail = 0 /\ result.failedAt = 0
    THEN "clean_sync" ELSE result.op

SyncCall(listFail, detail) ==
    \E r \in {SyncAllEntriesToCache(files, dir, remote, pageSize, now, listFail, detail)} :
    /\ files' = r.files
    /\ dir' = r.dir
    /\ result' = [op |-> "sync", error |-> r.error, raised |-> r.raised,
                  synced |-> r.synced,
                  errors |-> r.errors, pages |-> r.pages, walked |-> r.walked,
                  listFail |-> listFail, failedAt |-> FailedAt(detail),
                  storable |-> dir # "noparent", after |-> Follows,
                  gets |-> r.pages + Len(r.walked)]
    /\ UNCHANGED <<now, remote, pageSize, last, creds, writer, reader>>

GetCategoriesCall(listFail) ==
    \E r \in {GetCategories(remote, pageSize, listFail)} :
    /\ result' = [op |-> "get_categories", error |-> r.error, raised |-> r.raised,
                  categories |-> r.categories, total |-> r.total, pages |-> r.pages,
                  walked |-> r.walked, listFail |-> listFail, gets |-> r.pages]
    /\ UNCHANGED <<now, dir, files, remote, pageSize, last, creds, writer, reader>>

GetEntryCall(entry_id) ==
    \E r \in {GetEntry(files, now, entry_id)} :
    /\ files' = r.files
    /\ result' = [op |-> "get_entry", entry_id |-> entry_id, found |-> r.found,
                  entry |-> r.entry, raised |-> r.raised,
                  error |-> r.raised = NoError /\ ~r.found, gets |-> 0]
    /\ UNCHANGED <<now, dir, remote, pageSize, last, creds, writer, reader>>

SearchEntriesCall(keyword, max_results, stems) ==
    \E r \in {SearchEntries(files, dir, now, keyword, max_results, stems)} :
    /\ files' = r.files
    /\ result' = [op |-> "search_entries", keyword |-> keyword,
                  max_results |-> max_results, error |-> r.error,
                  entries |-> r.entries, count |-> r.count, gets |-> 0]
    /\ UNCHANGED <<now, dir, remote, pageSize, last, creds, writer, reader>>

\* the newest post is deleted on the remote blog
RemoteDelete ==
    /\ remote # <<>>
    /\ remote' = Tail(remote)
    /\ result' = [op |-> "remote_delete"]
    /\ UNCHANGED <<now, dir, files, pageSize, last, creds, writer, reader>>

ListEntriesCall(page_url, max_results, status) ==
    \E r \in {ListEntries(remote, pageSize, page_url, max_results, status)} :
    /\ result' = [op |-> "list_entries", page_url |-> page_url,
                  max_results |-> max_results, error |-> r.error, raised |-> r.raised,
                  entries |-> r.entries, next_page_url |-> r.next_page_url,
                  gets |-> r.gets]
    /\ UNCHANGED <<now, dir, files, remote, pageSize, last, creds, writer, reader>>

GetEntriesByCategoryCall(category, max_results, listFail) ==
    \E r \in {GetEntriesByCategory(remote, pageSize, category, max_results, listFail)} :
    /\ result' = [op |-> "get_entries_by_category", category |-> category,
                  max_results |-> max_results, error |-> r.error, raised |-> r.raised,
                  entries |-> r.entries, count |-> r.count, pages |-> r.pages,
                  listFail |-> listFail, gets |-> r.pages]
    /\ UNCHANGED <<now, dir, files, remote, pageSize, last, creds, writer, reader>>

\* the process is started again with another environment: lines 24-26 read the
\* three values once, at import
Restart(c) ==
    /\ creds' = c
    /\ result' = [op |-> "restart"]
    /\ UNCHANGED <<now, dir, files, remote, pageSize, last, writer, reader>>

\* update_cache and get_categories against a blog that loses posts
Next ==
    \/ \E listFail \in 0..PageCount(remote, pageSize),
          detail \in DetailOutcomes(Len(remote)) : SyncCall(listFail, detail)
    \/ \E listFail \in 0..PageCount(remote, pageSize) : GetCategoriesCall(listFail)
    \/ RemoteDelete

Spec == Init /\ [][Next]_vars

\* the categories a caller may ask for: a label as stored, and one in another case
Categories == {CatA, CatX, Lower(CatB)}

\* the statuses of a list GET
ListStatuses == {200, 500, TransportError}

\* the six tools, every GET answering 200, on a process that is restarted with
\* one of the three values empty
InitConfig ==
    /\ now = 0
    /\ dir = "missing"
    /\ files = <<>>
    /\ creds = AllSet
    /\ writer = Idle
    /\ reader = Idle
    /\ remote \in {f \in Feeds : Len(f) = MaxEntries}
    /\ pageSize = MaxPageSize
    /\ last = NoCall
    /\ result = NoResult

NextConfig ==
    \/ \E c \in CredSettings : Restart(c)
    \/ SyncCall(0, [i \in 1..Len(remote) |-> "ok"])
    \/ GetCategoriesCall(0)
    \/ \E page_url \in {None, Some(2)} : ListEntriesCall(page_url, DefaultMaxResults, 200)
    \/ \E category \in Categories : GetEntriesByCategoryCall(category, 1, 0)
    \/ \E entry_id \in EntryIds : GetEntryCall(entry_id)
    \/ \E keyword \in Keywords, stems \in Orders(DOMAIN files) :
          SearchEntriesCall(keyword, MaxEntries, stems)

SpecConfig == InitConfig /\ [][NextConfig]_vars

\* an entry of the feed without a title element
MalformedPost == [id |-> <<"b", "-", "5">>, categories |-> <<CatA>>]

\* the empty collection, the collections of MaxEntries posts, and those whose
\* oldest entry is the malformed one
FeedsWithMalformed ==
    {<<>>}
    \cup {f \in Feeds : Len(f) = MaxEntries}
    \cup {Append(f, MalformedPost) : f \in {g \in Feeds : Len(g) = MaxEntries - 1}}

\* the list GET that fails, if any: the first page or the last, by a status
\* (p) or by an exception (-p)
ListFailures ==
    {0} \cup UNION {{p, 0 - p} : p \in {1, PageCount(remote, pageSize)}}

\* the network tools against a remote whose GETs may answer 500 or raise and
\* whose feed may hold a malformed entry
InitFail ==
    /\ now = 0
    /\ dir = "missing"
    /\ files = <<>>
    /\ creds = AllSet
    /\ writer = Idle
    /\ reader = Idle
    /\ remote \in FeedsWithMalformed
    /\ pageSize \in 1..MaxPageSize
    /\ last = NoCall
    /\ result = NoResult

NextFail ==
    \/ \E page_url \in {None} \cup {Some(p) : p \in 2..PageCount(remote, pageSize)},
          max_results \in {1, DefaultMaxResults}, status \in ListStatuses :
            ListEntriesCall(page_url, max_results, status)
    \/ \E listFail \in ListFailures : GetCategoriesCall(listFail)
    \/ \E category \in Categories, max_results \in {0, 1, MaxPageSize},
          listFail \in ListFailures :
            GetEntriesByCategoryCall(category, max_results, listFail)
    \/ \E listFail \in ListFailures,
          detail \in {d \in DetailOutcomes(Len(remote)) : FailedAt(d) <= 1} :
            SyncCall(listFail, detail)

SpecFail == InitFail /\ [][NextFail]_vars

\* a server whose cache is filled by syncs whose list pages all arrive
InitRead ==
    /\ now = 0
    /\ dir = "missing"
    /\ files = <<>>
    /\ creds = AllSet
    /\ writer = Idle
    /\ reader = Idle
    /\ remote \in Feeds
    /\ pageSize = MaxPageSize
    /\ last = NoCall
    /\ result = NoResult

NextRead ==
    \/ \E detail \in DetailOutcomes(Len(remote)) : SyncCall(0, detail)
    \/ \E entry_id \in EntryIds : GetEntryCall(entry_id)
    \/ \E keyword \in Keywords, max_results \in {1, MaxEntries},
          stems \in Orders(DOMAIN files) :
            SearchEntriesCall(keyword, max_results, stems)

SpecRead == InitRead /\ [][NextRead]_vars

\* the ids of the posts as sync cuts them for the entry URI and the cache key
ShortIds == {SplitLast(e.id) : e \in Catalogue}

\* the --clear-cache mode of the program (lines 442-447)
ClearCacheRun ==
    \E r \in {ClearCache(files, dir)} :
    /\ files' = r.files
    /\ result' = [op |-> "clear_cache", ret |-> r.ret]
    /\ UNCHANGED <<now, dir, creds, remote, pageSize, writer, reader, last>>

\* what a stored file may be replaced by from outside the program: an empty
\* file, or a JSON document that is a list
DamageDocs == {Truncated, [json |-> "array", cached_at |-> None, data |-> None]}

DamageFile(k, doc) ==
    /\ GetCachePath(k) \in DOMAIN files
    /\ files' = WriteFile(files, GetCachePath(k), doc)
    /\ result' = [op |-> "damage", key |-> k]
    /\ UNCHANGED <<now, dir, creds, remote, pageSize, writer, reader, last>>

\* the life of the cache of one blog: syncs of a blog that loses posts, the
\* tools that read, the clock, --clear-cache, and a file damaged from outside
InitLife ==
    /\ now = 0
    /\ dir = "missing"
    /\ files = <<>>
    /\ creds = AllSet
    /\ remote = SubSeq(AllPosts, 1, Min(MaxEntries, Len(AllPosts)) - 1)
    /\ pageSize = MaxPageSize
    /\ writer = Idle
    /\ reader = Idle
    /\ last = NoCall
    /\ result = NoResult

NextLife ==
    \/ \E d \in {1, CACHE_EXPIRY_HOURS} : Tick(d)
    \/ SyncCall(0, [i \in 1..Len(remote) |-> "ok"])
    \/ RemoteDelete
    \/ \E entry_id \in ShortIds : GetEntryCall(entry_id)
    \/ \E stems \in Orders(DOMAIN files) :
          SearchEntriesCall(CHOOSE k \in Keywords : TRUE, MaxEntries, stems)
    \/ ListEntriesCall(None, DefaultMaxResults, 200)
    \/ GetCategoriesCall(0)
    \/ GetEntriesByCategoryCall(CatA, 1, 0)
    \/ ClearCacheRun
    \/ \E k \in Keys, doc \in DamageDocs : DamageFile(k, doc)

SpecLife == InitLife /\ [][NextLife]_vars

----------------------------------------------------------------------------
(* save_cache and load_cache step by step, as two processes run them: the     *)
(* server reads the cache while the --update-cache process writes it.  A file *)
(* opened for writing is empty until the data is written and the file closed; *)
(* a file unlinked while open is written to no more under its name.           *)

\* another process unlinks `path`: a writer that has it open loses the name
Detach(w, path) ==
    IF w.pc = "dump" /\ GetCachePath(w.key) = path THEN [w EXCEPT !.linked = FALSE]
    ELSE w

\* save_cache, lines 89-94: mkdir, the timestamp, open(cache_path, "w")
SaveOpen(k, v) ==
    /\ writer.pc = "idle"
    /\ dir # "noparent"
    /\ dir' = "exists"
    /\ files' = WriteFile(files, GetCachePath(k), Truncated)
    /\ writer' = [pc |-> "dump", key |-> k, data |-> v, at |-> now, linked |-> TRUE,
                  old |-> IF GetCachePath(k) \in DOMAIN files
                          THEN files[GetCachePath(k)].data ELSE None]
    /\ UNCHANGED <<now, creds, remote, pageSize, reader, last, result>>

\* save_cache, line 95 and the end of the with block: json.dump and close
SaveDump ==
    /\ writer.pc = "dump"
    /\ files' = IF writer.linked
                THEN WriteFile(files, GetCachePath(writer.key),
                         JsonDump([cached_at |-> IsoFormat(writer.at),
                                   data |-> writer.data]))
                ELSE files
    /\ writer' = [writer EXCEPT !.pc = "done"]
    /\ UNCHANGED <<now, dir, creds, remote, pageSize, reader, last, result>>

\* the reader's record when its call has ended
Ended(k, ret, raised, saw) ==
    [pc |-> "done", key |-> k, ret |-> ret, raised |-> raised, saw |-> saw]

\* load_cache, lines 60-64: the existence test
LoadExists(k) ==
    /\ reader.pc \in {"idle", "done"}
    /\ reader' = IF GetCachePath(k) \in DOMAIN files
                 THEN [pc |-> "read", key |-> k, ret |-> None, raised |-> NoError,
                       saw |-> "absent"]
                 ELSE Ended(k, None, NoError, "absent")
    /\ UNCHANGED <<now, dir, files, creds, remote, pageSize, writer, last, result>>

\* load_cache, lines 66-78: open, json.load, the expiry test
LoadRead ==
    /\ reader.pc = "read"
    /\ LET k == reader.key
           path == GetCachePath(k)
           saw == Shape(files, now, k)
       IN  IF path \notin DOMAIN files
           THEN reader' = Ended(k, None, "FileNotFoundError", saw)
           ELSE \E r \in {ReadDoc(files[path], now)} :
                  reader' =
                    IF r.exc = NoError /\ ~r.expired THEN Ended(k, r.val, NoError, saw)
                    ELSE IF r.exc = NoError \/ Caught(r.exc)
                    THEN [reader EXCEPT !.pc = "unlink", !.saw = saw]
                    ELSE Ended(k, None, r.exc, saw)
    /\ UNCHANGED <<now, dir, files, creds, remote, pageSize, writer, last, result>>

\* load_cache, line 74 or line 82: cache_path.unlink()
LoadUnlink ==
    /\ reader.pc = "unlink"
    /\ LET k == reader.key
           path == GetCachePath(k)
       IN  IF path \notin DOMAIN files
           THEN /\ reader' = Ended(k, None, "FileNotFoundError", reader.saw)
                /\ UNCHANGED <<files, writer>>
           ELSE /\ reader' = Ended(k, None, NoError, reader.saw)
                /\ files' = Unlink(files, path)
                /\ writer' = Detach(writer, path)
    /\ UNCHANGED <<now, dir, creds, remote, pageSize, last, result>>

\* a cache in which every key holds the same fresh payload, as a sync left it
InitRace ==
    /\ now = 0
    /\ dir = "exists"
    /\ \E v \in Payloads :
          files = [path \in {GetCachePath(k) : k \in Keys} |->
                      JsonDump([cached_at |-> IsoFormat(0), data |-> v])]
    /\ creds = AllSet
    /\ remote = <<>>
    /\ pageSize = 1
    /\ writer = Idle
    /\ reader = Idle
    /\ last = NoCall
    /\ result = NoResult

\* one save_cache in one process, load_cache calls in another, and load_cache
\* calls when the save has ended and no other read is under way
NextRace ==
    \/ \E k \in Keys, v \in Payloads : SaveOpen(k, v)
    \/ SaveDump
    \/ \E k \in Keys : LoadExists(k)
    \/ LoadRead
    \/ LoadUnlink
    \/ \E k \in Keys :
          /\ writer.pc = "done"
          /\ reader.pc \in {"idle", "done"}
          /\ LoadCacheCall(k)

SpecRace == InitRace /\ [][NextRace]_vars

\* the key the processes of SpecReader meet on
SharedKey == CHOOSE k \in Keys : TRUE

\* load_cache in one process while other processes store the entry, replace
\* its file by any document, or run --clear-cache
InitReader ==
    /\ now = 0
    /\ dir = "exists"
    /\ files = <<>>
    /\ creds = AllSet
    /\ remote = <<>>
    /\ pageSize = 1
    /\ writer = Idle
    /\ reader = Idle
    /\ last = NoCall
    /\ result = NoResult

NextReader ==
    \/ SaveCacheCall(SharedKey, CorruptPayload)
    \/ \E doc \in CorruptDocs : DamageFile(SharedKey, doc)
    \/ ClearCacheRun
    \/ LoadExists(SharedKey)
    \/ LoadRead
    \/ LoadUnlink

SpecReader == InitReader /\ [][NextReader]_vars

----------------------------------------------------------------------------
(* Claims about the cache store, checked under SpecCache *)

StoredData(k) == files[GetCachePath(k)].data

StoredAt(k) == files[GetCachePath(k)].cached_at[1][2]

\* C1: a save_cache(k, v) that completes, followed by load_cache(k) as the next
\* call with the clock advanced by less than the expiry window, returns v and
\* leaves the stored file as it was.
CacheRoundTrip ==
    [][ ( /\ last.op = "save_cache"
          /\ last.raised = NoError
          /\ last'.op = "load_cache"
          /\ last'.key = last.key
          /\ last'.at - last.at < CACHE_EXPIRY_HOURS )
        => ( /\ last'.ret = last.data
             /\ last'.raised = NoError
             /\ GetCachePath(last.key) \in DOMAIN files'
             /\ files' = files ) ]_vars

\* a load_cache(k) right after save_cache(k, v), the clock having advanced in
\* between, that returned the payload
CacheRoundTripWitness ==
    /\ last.op = "load_cache"
    /\ last.after = <<"save_cache", last.key>>
    /\ GetCachePath(last.key) \in DOMAIN files
    /\ last.saw = "fresh"
    /\ last.at > StoredAt(last.key)
    /\ last.ret = StoredData(last.key)
    /\ last.ret # None

\* what load_cache owes a well-formed stored entry, by its age at the call
ExpiryOnRead ==
    last.op = "load_cache" =>
        /\ last.saw = "fresh" =>
              /\ GetCachePath(last.key) \in DOMAIN files
              /\ last.ret = StoredData(last.key)
              /\ last.ret # None
              /\ last.raised = NoError
        /\ last.saw = "expired" =>
              /\ GetCachePath(last.key) \notin DOMAIN files
              /\ last.ret = None
              /\ last.raised = NoError

\* C2: load_cache returns the payload and keeps the file when
\* now - cached_at <= expiry window, returns absent and removes the file when
\* now - cached_at > expiry window, and a second load_cache of the same key
\* after an expired read is absent too.
Expiry ==
    /\ []ExpiryOnRead
    /\ [][ ( /\ last.op = "load_cache"
             /\ last.saw = "expired"
             /\ last'.op = "load_cache"
             /\ last'.key = last.key )
           => (last'.ret = None /\ last'.raised = NoError) ]_vars

\* a second load_cache of a key whose first read found the entry expired
ExpiryWitness ==
    /\ last.op = "load_cache"
    /\ last.after = <<"load_cache", last.key>>
    /\ last.saw = "absent"
    /\ last.ret = None
    /\ last.at > CACHE_EXPIRY_HOURS
    /\ GetCachePath(last.key) \notin DOMAIN files

\* C3: a stored file holding invalid JSON, an object without cached_at or
\* without data, or an unparsable cached_at string makes load_cache return
\* absent, without raising, and the file is gone afterwards.
CorruptionSelfHeal ==
    ( /\ last.op = "load_cache"
      /\ last.saw \in {"invalid_json", "no_cached_at", "no_data", "bad_cached_at"} )
    => ( /\ last.ret = None
         /\ last.raised = NoError
         /\ GetCachePath(last.key) \notin DOMAIN files )

\* load_cache has read an object whose data member is missing
CorruptionSelfHealWitness ==
    /\ last.op = "load_cache"
    /\ last.saw = "no_data"
    /\ last.ret = None
    /\ GetCachePath(last.key) \notin DOMAIN files

----------------------------------------------------------------------------
(* Claims about the full-collection walks, checked under Spec *)

\* ceil(n / d)
CeilDiv(n, d) == (n + d - 1) \div d

RemoteIds == [i \in 1..Len(remote) |-> remote[i].id]

WalkDone == result.op \in {"sync", "get_categories"} /\ ~result.error

\* C4 as stated: a full walk of N >= 0 entries in pages of P fetches exactly
\* ceil(N/P) list pages and processes each entry exactly once.
PaginationAsClaimed ==
    WalkDone =>
        /\ result.pages = CeilDiv(Len(remote), pageSize)
        /\ result.walked = RemoteIds

\* C4, amended: a full walk (sync_all_entries_to_cache, get_categories) of N
\* entries in pages of P <= 50 fetches exactly ceil(N/P) list pages, and one
\* page when N = 0, and processes each entry exactly once, in feed order.
PaginationTermination ==
    WalkDone =>
        /\ result.pages =
             IF Len(remote) = 0 THEN 1 ELSE CeilDiv(Len(remote), pageSize)
        /\ result.walked = RemoteIds

\* a sync that walked three entries over two pages
PaginationWitness ==
    /\ result.op = "sync"
    /\ ~result.error
    /\ pageSize = 2
    /\ Len(remote) = 3
    /\ result.pages = 2
    /\ Len(result.walked) = 3

\* the payload stored under each file of the cache
PayloadsOf(fs) == [path \in DOMAIN fs |-> fs[path].data]

CleanSync(r) == r.op = "sync" /\ r.listFail = 0 /\ r.failedAt = 0

\* C5: when every list and detail fetch succeeds and the remote does not
\* change, a second sync right after the first leaves the same cache keys with
\* the same payloads, and both runs return synced = N and errors = 0.
SyncIdempotence ==
    [][ (CleanSync(result) /\ CleanSync(result') /\ result'.after = "clean_sync")
        => ( /\ PayloadsOf(files') = PayloadsOf(files)
             /\ ~result.error /\ result.synced = Len(remote) /\ result.errors = 0
             /\ ~result'.error /\ result'.synced = Len(remote)
             /\ result'.errors = 0 ) ]_vars

\* the same under the further condition that the cache directory can be made:
\* CACHE_DIR's parent exists
SyncIdempotenceWhenStorable ==
    [][ ( /\ CleanSync(result) /\ CleanSync(result')
          /\ result'.after = "clean_sync" /\ result.storable )
        => ( /\ PayloadsOf(files') = PayloadsOf(files)
             /\ ~result.error /\ result.synced = Len(remote) /\ result.errors = 0
             /\ ~result'.error /\ result'.synced = Len(remote)
             /\ result'.errors = 0 ) ]_vars

\* the cache key sync stores the post at feed position i under
SyncKey(i) == EntryKey(SplitLast(remote[i].id))

\* C6: a failing detail fetch or store adds one to errors and the walk goes on;
\* a sync that completes without a list-page failure has walked every entry,
\* synced + errors is the number walked, and every entry whose detail fetch and
\* store succeeded is in the cache.
SyncPartialFailure ==
    (result.op = "sync" /\ ~result.error) =>
        /\ result.walked = RemoteIds
        /\ result.synced + result.errors = Len(result.walked)
        /\ result.errors =
             Cardinality({i \in 1..Len(remote) :
                            i = result.failedAt \/ ~result.storable})
        /\ \A i \in 1..Len(remote) :
             (i # result.failedAt /\ result.storable) =>
                /\ GetCachePath(SyncKey(i)) \in DOMAIN files
                /\ files[GetCachePath(SyncKey(i))].data = Some(Detail(remote[i]))

\* the detail fetch of the first of three entries failed and the two entries
\* after it, one of them on the next page, were synced
SyncPartialFailureWitness ==
    /\ result.op = "sync"
    /\ ~result.error
    /\ result.failedAt = 1
    /\ result.errors = 1
    /\ result.synced = 2
    /\ result.pages = 2
    /\ Cardinality(DOMAIN files) >= 2

\* the number of label occurrences equal to `name` in the whole collection
Occurrences(name) ==
    Cardinality({<<i, j>> \in (1..Len(remote)) \X (1..2) :
                    j <= Len(remote[i].categories) /\ remote[i].categories[j] = name})

\* the first feed position, then the first place within the entry, at which
\* `name` occurs, as one number
FirstSeen(name) ==
    CHOOSE k \in 1..(2 * Len(remote) + 2) :
        /\ \E i \in 1..Len(remote), j \in 1..2 :
              /\ k = 2 * i + j
              /\ j <= Len(remote[i].categories) /\ remote[i].categories[j] = name
        /\ \A i \in 1..Len(remote), j \in 1..2 :
              (j <= Len(remote[i].categories) /\ remote[i].categories[j] = name)
                 => k <= 2 * i + j

Labels == UNION {{remote[i].categories[j] : j \in 1..Len(remote[i].categories)} :
                 i \in 1..Len(remote)}

\* C10: get_categories, its list pages all fetched, returns each label once
\* with the number of its occurrences over all pages, sorted by count
\* descending, equal counts in first-seen order, and total = distinct labels.
CategoryAggregation ==
    (result.op = "get_categories" /\ ~result.error) =>
        LET cs == result.categories IN
        /\ {cs[i].name : i \in 1..Len(cs)} = Labels
        /\ Len(cs) = Cardinality(Labels)
        /\ result.total = Cardinality(Labels)
        /\ \A i \in 1..Len(cs) : cs[i].count = Occurrences(cs[i].name)
        /\ \A i, j \in 1..Len(cs) :
             i < j =>
               /\ cs[i].count >= cs[j].count
               /\ cs[i].count = cs[j].count =>
                    FirstSeen(cs[i].name) < FirstSeen(cs[j].name)

\* three entries over two pages: the label seen first has one occurrence and
\* comes after the label with two; the tie of X and B keeps X first
CategoryAggregationWitness ==
    /\ result.op = "get_categories"
    /\ ~result.error
    /\ result.pages = 2
    /\ result.categories = <<[name |-> CatA, count |-> 2], [name |-> CatX, count |-> 1],
                             [name |-> CatB, count |-> 1]>>

----------------------------------------------------------------------------
(* Claims about the reads of the cache, checked under SpecRead *)

\* the posts a list_entries call on page p returns
Listed(p) ==
    ListEntries(remote, pageSize, IF p = 1 THEN None ELSE Some(p),
                DefaultMaxResults, 200).entries

\* C7: after a sync that completes with errors = 0, get_entry(e.id), with the
\* id as list_entries returned it, yields the cached full record of e for
\* every listed entry e.
JoinKey ==
    (result.op = "sync" /\ ~result.error /\ result.errors = 0) =>
        \A p \in 1..PageCount(remote, pageSize) :
            \A n \in 1..Len(Listed(p)) :
                LET e == Listed(p)[n]
                    got == GetEntry(files, now, e.id)
                IN  /\ got.found
                    /\ got.entry # None
                    /\ got.entry[1].id = e.id

\* the records stored as fresh, well-formed entries
StoredRecords ==
    {files[path].data[1] : path \in
        {q \in DOMAIN files :
            /\ files[q].json = "object" /\ files[q].cached_at # None
            /\ files[q].data # None
            /\ files[q].cached_at[1][1] = "iso"
            /\ now - files[q].cached_at[1][2] <= CACHE_EXPIRY_HOURS}}

Returned == {result.entries[i] : i \in 1..Len(result.entries)}

SearchDone ==
    /\ result.op = "search_entries"
    /\ ~result.error
    /\ result.max_results >= Cardinality(DOMAIN files)

HasIn(keyword, text) == text # NoneStr /\ Contains(Lower(keyword), Lower(text))

\* C8: search_entries returns every stored fresh record whose title contains
\* the keyword, case-insensitively, when max_results is at least the number
\* of stored entries.
SearchScansCache ==
    SearchDone =>
        \A v \in StoredRecords : HasIn(result.keyword, v.title) => v \in Returned

\* C9: a record whose title contains the keyword is matched even if its
\* content does not, and a record whose only match is in its content is
\* matched when the content is searched, as this search_entries always does.
SearchPriority ==
    SearchDone =>
        \A v \in StoredRecords :
            /\ (HasIn(result.keyword, v.title) /\ ~HasIn(result.keyword, v.content))
                  => v \in Returned
            /\ ( /\ v.title # NoneStr /\ ~HasIn(result.keyword, v.title)
                 /\ \A c \in 1..Len(v.categories) :
                       ~HasIn(result.keyword, v.categories[c])
                 /\ HasIn(result.keyword, v.content) )
                  => v \in Returned

----------------------------------------------------------------------------
(* Further claims about the cache store, checked under SpecCache *)

\* the step is a clear_cache call: every other call names itself in last, and
\* the clock stands still during a call
ClearStep == last'.op = "clear_cache" /\ now' = now

AllAbsent(fs, clock) ==
    \A k \in Keys : LoadCache(fs, clock, k) = [files |-> fs, ret |-> None, raised |-> NoError]

\* C11 as stated: clear_cache returns true exactly when at least one entry
\* existed, false when the directory is missing or holds no entry, and
\* afterwards load_cache of every key is absent.
ClearCacheAsClaimed ==
    [][ ClearStep =>
          /\ last'.ret = Some(dir = "exists" /\ DOMAIN files # {})
          /\ AllAbsent(files', now') ]_vars

\* C11, amended: clear_cache returns true exactly when the cache directory
\* exists, whether or not it holds entries, false when it does not exist, and
\* afterwards no entry is stored and load_cache of every key is absent.
ClearCacheReturn ==
    [][ ClearStep =>
          /\ last'.ret = Some(dir = "exists")
          /\ files' = <<>>
          /\ AllAbsent(files', now') ]_vars

\* clear_cache right after a save_cache that stored an entry
ClearCacheWitness ==
    /\ last.op = "clear_cache"
    /\ last.after[1] = "save_cache"
    /\ dir = "exists"
    /\ last.ret = Some(TRUE)
    /\ files = <<>>

----------------------------------------------------------------------------
(* Claims about the configuration, checked under SpecConfig *)

Tools == {"list_entries", "get_entry", "search_entries", "get_categories",
          "get_entries_by_category", "sync"}

NetworkTools == {"list_entries", "get_categories", "get_entries_by_category", "sync"}

\* one of the three values is the empty string
OneEmpty == \E c \in CredNames : creds[c] = <<>>

\* C12 as stated: with one of the three values empty, every tool operation
\* returns a result carrying an "error" key and makes no network call.
ConfigShortCircuitAsClaimed ==
    (OneEmpty /\ result.op \in Tools) => (result.error /\ result.gets = 0)

\* C12, amended: with one of the three values empty, no tool operation makes
\* a network call, and list_entries, get_categories, get_entries_by_category
\* and sync_all_entries_to_cache return a result carrying an "error" key.
ConfigShortCircuit ==
    (OneEmpty /\ result.op \in Tools) =>
        /\ result.gets = 0
        /\ result.op \in NetworkTools => (result.error /\ ~result.raised)

\* a sync refused for its configuration on a machine whose cache an earlier,
\* configured run has filled
ConfigShortCircuitWitness ==
    /\ OneEmpty
    /\ result.op = "sync"
    /\ result.error
    /\ result.gets = 0
    /\ files # <<>>

----------------------------------------------------------------------------
(* Claims about failing fetches and the category filter, checked under SpecFail *)

\* C13: whatever the outcome of a list or detail fetch (non-200 status,
\* transport exception, a 200 response with an entry lacking a child the
\* handler reads), list_entries, get_categories, get_entries_by_category and
\* sync_all_entries_to_cache return a mapping and never end by raising.
FailuresNeverCrash ==
    result.op \in NetworkTools => ~result.raised

\* the same for the failures the handlers test for: a non-200 status of a list
\* page, and any failure of a detail fetch
StatusFailuresNeverCrash ==
    ( /\ result.op \in {"get_categories", "get_entries_by_category", "sync"}
      /\ result.listFail >= 0
      /\ \A i \in 1..Len(remote) : WellFormed(remote[i]) )
    => ~result.raised

----------------------------------------------------------------------------
(* Claims about a sync that fails, checked under Spec *)

\* C15: whenever sync_all_entries_to_cache returns a result carrying an
\* "error" key, the cache holds after the call what it held before it.
NoPartialWork ==
    [][ (result'.op = "sync" /\ result'.error) => files' = files ]_vars

\* the same for an error before the first page has been walked: the
\* configuration missing, or the first list page answering a non-200 status
NoPartialWorkFirstPage ==
    [][ (result'.op = "sync" /\ result'.error /\ result'.pages <= 1)
        => files' = files ]_vars

----------------------------------------------------------------------------
(* Claims about get_entries_by_category, checked under SpecFail *)

\* the feed positions of the entries that carry the label exactly
MatchingPositions(category) ==
    {i \in 1..Len(remote) : InList(category, remote[i].categories)}

\* the n-th smallest element of a set of numbers
RECURSIVE NthOf(_, _)
NthOf(S, n) ==
    LET least == CHOOSE x \in S : \A y \in S : x <= y IN
    IF n = 1 THEN least ELSE NthOf(S \ {least}, n - 1)

FilterDone ==
    /\ result.op = "get_entries_by_category"
    /\ result.listFail = 0
    /\ ~result.error
    /\ ~result.raised

\* C16: with every list page fetched, get_entries_by_category(category,
\* max_results) returns the first min(max_results, M) entries, in feed order,
\* that carry a label equal to category, and fetches no list page after the
\* one on which the max_results-th match is found.
FilterByCategory ==
    FilterDone =>
        LET M == MatchingPositions(result.category)
            n == Min(result.max_results, Cardinality(M))
        IN  /\ Len(result.entries) = n
            /\ result.count = n
            /\ \A i \in 1..n : result.entries[i] = ListItem(remote[NthOf(M, i)])
            /\ result.pages =
                 IF result.max_results = 0 THEN 0
                 ELSE IF Cardinality(M) >= result.max_results
                 THEN CeilDiv(NthOf(M, result.max_results), pageSize)
                 ELSE PageCount(remote, pageSize)

\* one match asked for and found on the first page of several: the walk stops
\* there although a later page holds another match
FilterByCategoryWitness ==
    /\ FilterDone
    /\ result.max_results = 1
    /\ result.count = 1
    /\ result.pages = 1
    /\ PageCount(remote, pageSize) > 1
    /\ Cardinality(MatchingPositions(result.category)) > 1

----------------------------------------------------------------------------
(* Claims about a read that races a write, checked under SpecRace *)

\* C14: a load_cache(k) that interleaves with a save_cache(k, v_new) over a
\* fresh entry v_old returns v_old or v_new and does not raise, no stored
\* file is deleted, and a load_cache(k) after both have finished returns v_new.
ReadersNeverSeePartialWrite ==
    /\ reader.pc = "done" =>
          /\ reader.raised = NoError
          /\ reader.ret # None
          /\ (writer.pc # "idle" /\ writer.key = reader.key)
                => reader.ret \in {writer.old, Some(writer.data)}
    /\ reader.pc # "unlink"
    /\ \A k \in Keys : GetCachePath(k) \in DOMAIN files
    /\ (last.op = "load_cache" /\ last.key = writer.key)
          => last.ret = Some(writer.data)

\* the same for the reads that do not meet an open file: a load_cache whose
\* read of the file falls before the open or after the close returns the
\* payload stored then
ReadsOutsideTheWrite ==
    [][ (reader.pc = "read" /\ reader'.pc # "read"
         /\ ~(writer.pc = "dump" /\ writer.key = reader.key))
        => ( /\ reader'.pc = "done"
             /\ reader'.raised = NoError
             /\ reader'.ret = files[GetCachePath(reader.key)].data
             /\ reader'.ret # None ) ]_vars

----------------------------------------------------------------------------
(* Claims about the life of a cache entry, checked under SpecLife *)

\* what load_cache removes: an expired entry, or a file it cannot read
Removable == {"expired", "invalid_json", "no_cached_at", "bad_cached_at", "no_data"}

\* C17: a stored entry disappears only through load_cache of its own key (here
\* by get_entry) finding it expired or invalid, or through clear_cache; no
\* other operation, sync included, removes an entry, and get_entry returns an
\* entry that is stored and fresh whether or not its post is still on the remote.
OnlyReadOrClearRemoves ==
    [][ /\ \A path \in DOMAIN files :
              path \notin DOMAIN files' =>
                 \/ result'.op = "clear_cache"
                 \/ /\ result'.op = "get_entry"
                    /\ path = GetCachePath(EntryKey(result'.entry_id))
                    /\ Shape(files, now, EntryKey(result'.entry_id)) \in Removable
        /\ (result'.op = "get_entry" /\ now' = now
            /\ Shape(files, now, EntryKey(result'.entry_id)) = "fresh")
              => /\ result'.found
                 /\ result'.entry = files[GetCachePath(EntryKey(result'.entry_id))].data
                 /\ files' = files ]_vars

\* get_entry returns a post that the remote has lost, from an entry older than
\* another one, which a later sync wrote
OnlyReadOrClearRemovesWitness ==
    /\ result.op = "get_entry"
    /\ result.found
    /\ \A i \in 1..Len(remote) : SplitLast(remote[i].id) # result.entry_id
    /\ \E path \in DOMAIN files :
          /\ files[path].json = "object"
          /\ files[path].cached_at[1][2] >
                files[GetCachePath(EntryKey(result.entry_id))].cached_at[1][2]

\* the step is a get_entry call
GetEntryStep == result'.op = "get_entry" /\ now' = now

\* what get_entry owes the caller on an entry of the given shapes
GetEntryOn(shapes) ==
    LET k == EntryKey(result'.entry_id)
        path == GetCachePath(k)
        shape == Shape(files, now, k)
    IN  (GetEntryStep /\ shape \in shapes) =>
          /\ result'.gets = 0
          /\ result'.raised = NoError
          /\ shape = "fresh" =>
                /\ result'.found
                /\ result'.entry = files[path].data
                /\ files' = files
          /\ shape # "fresh" =>
                /\ ~result'.found
                /\ result'.error
                /\ files' \in {files, Unlink(files, path)}
          /\ \A p \in DOMAIN files' : p \in DOMAIN files /\ files'[p] = files[p]

AllShapes ==
    {"absent", "invalid_json", "not_object", "no_cached_at", "cached_at_not_str",
     "bad_cached_at", "no_data", "fresh", "expired"}

\* C18: get_entry makes no network call and writes no cache entry; it returns
\* the stored payload when the entry of "entry_" + entry_id is fresh, and
\* otherwise the not-found error, at most deleting that key's file.
GetEntryCacheOnly == [][GetEntryOn(AllShapes)]_vars

\* the same on every file but one load_cache raises on: a JSON document that is
\* no object, or whose cached_at is no string
GetEntryCacheOnlyOnObjects ==
    [][GetEntryOn(AllShapes \ {"not_object", "cached_at_not_str"})]_vars

----------------------------------------------------------------------------
(* Claims about load_cache on any file, checked under SpecReader *)

\* the step ends a load_cache call
LoadEnds == reader.pc \in {"read", "unlink"} /\ reader'.pc = "done"

\* C19: whatever a stored file holds, valid JSON that is no object or whose
\* cached_at is no string included, load_cache returns absent, removes the
\* file and does not raise; and a file another process removes between the
\* existence test and the read or the unlink yields absent too.
CorruptionNeverSurfaces ==
    [][ LoadEnds =>
          /\ reader'.raised = NoError
          /\ reader'.saw # "fresh" =>
                /\ reader'.ret = None
                /\ GetCachePath(reader.key) \notin DOMAIN files' ]_vars

\* the same for the files of C3, when no other process removes the file during
\* the call
CaughtCorruptionNeverSurfaces ==
    [][ ( /\ LoadEnds
          /\ GetCachePath(reader.key) \in DOMAIN files
          /\ reader'.saw \notin {"not_object", "cached_at_not_str"} )
        => ( /\ reader'.raised = NoError
             /\ reader'.saw # "fresh" =>
                   /\ reader'.ret = None
                   /\ GetCachePath(reader.key) \notin DOMAIN files' ) ]_vars

----------------------------------------------------------------------------
(* Further claims about the cache store, checked under SpecCache *)

\* C20: from every state of the file system (the cache directory present,
\* missing with its parent present, missing with its parent), save_cache(k, v)
\* succeeds, the directory exists afterwards, and load_cache(k) returns v.
LazyDirectory ==
    (last.op = "save_cache") =>
        /\ last.raised = NoError
        /\ dir = "exists"
        /\ (last.at = now) => LoadCache(files, now, last.key).ret = last.data

\* the same when the parent of the cache directory exists
LazyDirectoryUnderParent ==
    (last.op = "save_cache" /\ dir # "noparent") =>
        /\ last.raised = NoError
        /\ dir = "exists"
        /\ (last.at = now) => LoadCache(files, now, last.key).ret = last.data

====
